---- MODULE Spec2Model ----
(***************************************************************************)
(* DualShock4 USB HID reader: the report decoder (_parseHIDData and its    *)
(* _get*State helpers), the state channel (the BehaviorSubject `state`)    *)
(* and the connection manager (connect, _handleHIDError) of                *)
(* src/src/dualshock.ts.                                                   *)
(*                                                                         *)
(* A report (a Node Buffer) is a sequence of bytes; the code's data[i] is  *)
(* the sequence's element i + 1.                                           *)
(***************************************************************************)
EXTENDS Integers, Sequences, FiniteSets, TLC

\* --------------------------------------------------------------- bounds

\* how many reports one behaviour publishes on the state channel
MaxPublish == 2
\* how many HID handles one behaviour opens (calls of new HID that succeed)
MaxHandles == 2
\* how many log lines one behaviour writes
MaxLog == 3

\* ------------------------------------------------- JavaScript arithmetic

\* the value of data[i] for an index outside the buffer, and of a field never set
Undefined == -1

Byte == 0..255

\* ToInt32 of an operand of a bitwise operator: undefined converts to 0
ToInt32(x) == IF x = Undefined THEN 0 ELSE x

RECURSIVE BitAndNat(_, _)
BitAndNat(a, b) ==
    IF a = 0 \/ b = 0 THEN 0
    ELSE (a % 2) * (b % 2) + 2 * BitAndNat(a \div 2, b \div 2)

RECURSIVE BitOrNat(_, _)
BitOrNat(a, b) ==
    IF a = 0 THEN b
    ELSE IF b = 0 THEN a
    ELSE (IF a % 2 = 1 \/ b % 2 = 1 THEN 1 ELSE 0) + 2 * BitOrNat(a \div 2, b \div 2)

\* a & b, a | b, a << n, a >> n on the non-negative operands the decoder uses
\* (bytes, shifted by at most 8 bits: no result leaves the 32-bit range)
BitAnd(a, b) == BitAndNat(ToInt32(a), ToInt32(b))
BitOr(a, b) == BitOrNat(ToInt32(a), ToInt32(b))
ShiftLeft(a, n) == ToInt32(a) * 2^n
ShiftRight(a, n) == ToInt32(a) \div 2^n

\* --------------------------------------------------------------- buffers

\* data[i]: the byte at index i, undefined outside the buffer
At(data, i) == IF i >= 0 /\ i < Len(data) THEN data[i + 1] ELSE Undefined

\* Buffer.readInt16LE(offset) throws a RangeError unless offset + 2 <= length
ReadInt16LEThrows(data, offset) == offset + 2 > Len(data)

\* Buffer.readInt16LE(offset): the two bytes, low byte first, as two's complement
ReadInt16LE(data, offset) ==
    LET u == data[offset + 1] + 256 * data[offset + 2]
    IN  IF u >= 32768 THEN u - 65536 ELSE u

\* ---------------------------------------------------------- the decoder

\* _getDPadUpState without the up-left diagonal
getDPadUpState_NoDiagonal(b) == b = 0 \/ b = 1

getDPadUpState(b) == b = 0 \/ b = 1 \/ b = 7
getDPadDownState(b) == b = 3 \/ b = 4 \/ b = 5
getDPadLeftState(b) == b = 5 \/ b = 6 \/ b = 7
getDPadRightState(b) == b = 1 \/ b = 2 \/ b = 3

\* _getCrossState testing bit 1 instead of bit 5
getCrossState_WrongBit(b) == BitAnd(b, 2) # 0

getCrossState(b) == BitAnd(b, 32) # 0
getCircleState(b) == BitAnd(b, 64) # 0
getSquareState(b) == BitAnd(b, 16) # 0
getTriangleState(b) == BitAnd(b, 128) # 0

getLeftStickState(b) == [x |-> At(b, 1), y |-> At(b, 2), z |-> 0]
getRightStickState(b) == [x |-> At(b, 3), y |-> At(b, 4), z |-> 0]

getR3State(b) == BitAnd(b, 128) # 0
getL3State(b) == BitAnd(b, 64) # 0
getOptionsState(b) == BitAnd(b, 32) # 0
getShareState(b) == BitAnd(b, 16) # 0
getL1State(b) == BitAnd(b, 1) # 0
getR1State(b) == BitAnd(b, 2) # 0

getR2State(b) == [pressed |-> BitAnd(At(b, 6), 8) # 0, value |-> At(b, 9)]
getL2State(b) == [pressed |-> BitAnd(At(b, 6), 4) # 0, value |-> At(b, 8)]

\* _getMotionState negating within 16 bits: -(-32768) wraps to -32768
getMotionState_Int16Negate(b) ==
    LET neg(v) == IF v = -32768 THEN -32768 ELSE 0 - v
    IN  [x |-> ReadInt16LE(b, 13),
         y |-> neg(ReadInt16LE(b, 15)),
         z |-> neg(ReadInt16LE(b, 17))]

getMotionState(b) ==
    [x |-> ReadInt16LE(b, 13),
     y |-> 0 - ReadInt16LE(b, 15),
     z |-> 0 - ReadInt16LE(b, 17)]

getOrientationState(b) ==
    [roll |-> 0 - ReadInt16LE(b, 19),
     yaw |-> ReadInt16LE(b, 21),
     pitch |-> ReadInt16LE(b, 23)]

getTimestampState(b) == ShiftRight(b, 2)

\* _getTrackPadState with the second touch's x still reading byte 37
getTrackPadState_Touch2Byte37(b) ==
    [pressed |-> BitAnd(At(b, 7), 2) # 0,
     touches |->
        << [active |-> ShiftRight(At(b, 35), 7) = 0,
            coordinates |->
               [x |-> BitOr(ShiftLeft(BitAnd(At(b, 37), 15), 8), At(b, 36)),
                y |-> BitOr(ShiftLeft(At(b, 38), 4), ShiftRight(BitAnd(At(b, 37), 240), 4)),
                z |-> 0],
            id |-> BitAnd(At(b, 35), 127)],
           [active |-> ShiftRight(At(b, 39), 7) = 0,
            coordinates |->
               [x |-> BitOr(ShiftLeft(BitAnd(At(b, 37), 15), 8), At(b, 40)),
                y |-> BitOr(ShiftLeft(At(b, 42), 4), ShiftRight(BitAnd(At(b, 41), 240), 4)),
                z |-> 0],
            id |-> BitAnd(At(b, 39), 127)] >>]

getTrackPadState(b) ==
    [pressed |-> BitAnd(At(b, 7), 2) # 0,
     touches |->
        << [active |-> ShiftRight(At(b, 35), 7) = 0,
            coordinates |->
               [x |-> BitOr(ShiftLeft(BitAnd(At(b, 37), 15), 8), At(b, 36)),
                y |-> BitOr(ShiftLeft(At(b, 38), 4), ShiftRight(BitAnd(At(b, 37), 240), 4)),
                z |-> 0],
            id |-> BitAnd(At(b, 35), 127)],
           [active |-> ShiftRight(At(b, 39), 7) = 0,
            coordinates |->
               [x |-> BitOr(ShiftLeft(BitAnd(At(b, 41), 15), 8), At(b, 40)),
                y |-> BitOr(ShiftLeft(At(b, 42), 4), ShiftRight(BitAnd(At(b, 41), 240), 4)),
                z |-> 0],
            id |-> BitAnd(At(b, 39), 127)] >>]

getPsState(b) == BitAnd(b, 1) # 0

\* _parseHIDData throws (a RangeError out of readInt16LE) before it publishes
parseHIDDataThrows(data) ==
    \E offset \in {13, 15, 17, 19, 21, 23} : ReadInt16LEThrows(data, offset)

\* the DualShockState _parseHIDData builds from a report it can read
parseHIDDataState(data) ==
    [battery |-> At(data, 12),
     circle |-> getCircleState(At(data, 5)),
     cross |-> getCrossState(At(data, 5)),
     dPadDown |-> getDPadDownState(BitAnd(At(data, 5), 15)),
     dPadLeft |-> getDPadLeftState(BitAnd(At(data, 5), 15)),
     dPadRight |-> getDPadRightState(BitAnd(At(data, 5), 15)),
     dPadUp |-> getDPadUpState(BitAnd(At(data, 5), 15)),
     l1 |-> getL1State(At(data, 6)),
     l2 |-> getL2State(data),
     l3 |-> getL3State(At(data, 6)),
     leftStick |-> getLeftStickState(data),
     motion |-> getMotionState(data),
     options |-> getOptionsState(At(data, 6)),
     orientation |-> getOrientationState(data),
     ps |-> getPsState(At(data, 7)),
     r1 |-> getR1State(At(data, 6)),
     r2 |-> getR2State(data),
     r3 |-> getR3State(At(data, 6)),
     rightStick |-> getRightStickState(data),
     share |-> getShareState(At(data, 6)),
     square |-> getSquareState(At(data, 5)),
     timestamp |-> getTimestampState(At(data, 7)),
     touchPad |-> getTrackPadState(data),
     triangle |-> getTriangleState(At(data, 5))]

\* ------------------------------------------------------------- the state

VARIABLES
    options,    \* this._options after the constructor: [vendorID, productID, tag]
    hid,        \* this._hid: 0 for null, else the index in handles of the HID object
    handles,    \* the HID objects made by new HID, in order: [open, onData, onError]
    logger,     \* the lines written to this._logger, in order: [level, message]
    state,      \* this.state, the BehaviorSubject: [value, observers]
    received,   \* per observer, the values it was handed since it last subscribed
    notified,   \* the <<observer, value>> calls the last operation made, in order
    published,  \* the values handed to this.state.next so far, in order
    subAt,      \* per observer, Len(published) when it last subscribed
    lastOp      \* the last operation and what it did:
                \* [op, enumerated, devices, found, opened, threw, handle, data]

vars == <<options, hid, handles, logger, state, received, notified, published, subAt, lastOp>>

\* the value the BehaviorSubject is constructed with: {}
EmptyState == [empty |-> TRUE]

\* the observers the model lets subscribe to this.state
Observers == {"o1", "o2"}

\* ----------------------------------------------------------- constructor

DefaultVendorID == 1356
DefaultProductID == 2508
DefaultTag == "DualShock"

\* a || b for a number: 0 and undefined are falsy
OrNumber(a, b) == IF a = Undefined \/ a = 0 THEN b ELSE a
\* a || b for a string, undefined written as the empty string: both are falsy
OrString(a, b) == IF a = "" THEN b ELSE a

\* the constructor's argument: << >> when it is left out, else <<options>>
\* (here a first-generation DualShock4, product 0x05c4, the vendor left 0)
OptionInputs ==
    { << >>,
      << [vendorID |-> 0, productID |-> 1476, tag |-> ""] >> }

constructor(arg) ==
    LET given == IF arg = << >>
                 THEN [vendorID |-> Undefined, productID |-> Undefined, tag |-> ""]
                 ELSE arg[1]
    IN  [vendorID |-> OrNumber(given.vendorID, DefaultVendorID),
         productID |-> OrNumber(given.productID, DefaultProductID),
         tag |-> OrString(given.tag, DefaultTag)]

\* lastOp after the constructor; every operation fills in what it did:
\* whether it called devices() and what that returned, whether a device matched,
\* whether it opened a handle, whether an exception left it, the handle whose
\* callback it is, the report it was handed
NoOp == [op |-> "new", enumerated |-> FALSE, devices |-> << >>, found |-> FALSE,
         opened |-> FALSE, threw |-> FALSE, handle |-> 0, data |-> << >>]

Init ==
    /\ options \in {constructor(arg) : arg \in OptionInputs}
    /\ hid = 0
    /\ handles = << >>
    /\ logger = << >>
    /\ state = [value |-> EmptyState, observers |-> << >>]
    /\ received = [o \in Observers |-> << >>]
    /\ notified = << >>
    /\ published = << >>
    /\ subAt = [o \in Observers |-> 0]
    /\ lastOp = NoOp

\* ----------------------------------------------------- the state channel

\* the manager is Connected when it holds a handle that is open
Connected == hid # 0 /\ handles[hid].open

\* stateNext with successive equal values coalesced (a distinctUntilChanged channel)
stateNext_Coalescing(value) ==
    /\ state' = [state EXCEPT !.value = value]
    /\ received' = [o \in Observers |->
                      IF /\ \E i \in 1..Len(state.observers) : state.observers[i] = o
                         /\ value # state.value
                      THEN Append(received[o], value)
                      ELSE received[o]]
    /\ notified' = IF value # state.value
                   THEN [i \in 1..Len(state.observers) |-> <<state.observers[i], value>>]
                   ELSE << >>
    /\ published' = Append(published, value)

\* BehaviorSubject.next(value): keep the value, hand it to every observer in turn
stateNext(value) ==
    /\ state' = [state EXCEPT !.value = value]
    /\ received' = [o \in Observers |->
                      IF \E i \in 1..Len(state.observers) : state.observers[i] = o
                      THEN Append(received[o], value)
                      ELSE received[o]]
    /\ notified' = [i \in 1..Len(state.observers) |-> <<state.observers[i], value>>]
    /\ published' = Append(published, value)

\* subscribe on a plain Subject: the observer is registered and handed nothing
subscribe_NoReplay(o) ==
    /\ \A i \in 1..Len(state.observers) : state.observers[i] # o
    /\ state' = [state EXCEPT !.observers = Append(@, o)]
    /\ received' = [received EXCEPT ![o] = << >>]
    /\ notified' = << >>
    /\ subAt' = [subAt EXCEPT ![o] = Len(published)]
    /\ lastOp' = [NoOp EXCEPT !.op = "subscribe"]
    /\ UNCHANGED <<options, hid, handles, logger, published>>

\* BehaviorSubject.subscribe(observer): register it and hand it the current value
subscribe(o) ==
    /\ \A i \in 1..Len(state.observers) : state.observers[i] # o
    /\ state' = [state EXCEPT !.observers = Append(@, o)]
    /\ received' = [received EXCEPT ![o] = <<state.value>>]
    /\ notified' = << <<o, state.value>> >>
    /\ subAt' = [subAt EXCEPT ![o] = Len(published)]
    /\ lastOp' = [NoOp EXCEPT !.op = "subscribe"]
    /\ UNCHANGED <<options, hid, handles, logger, published>>

\* Subscription.unsubscribe(): the observer leaves the list, the others keep their order
unsubscribe(o) ==
    /\ \E i \in 1..Len(state.observers) : state.observers[i] = o
    /\ state' = [state EXCEPT !.observers = SelectSeq(@, LAMBDA x : x # o)]
    /\ notified' = << >>
    /\ lastOp' = [NoOp EXCEPT !.op = "unsubscribe"]
    /\ UNCHANGED <<options, hid, handles, logger, received, published, subAt>>

\* -------------------------------------------------- the connection manager

\* _parseHIDData(data), the 'data' callback of handle h
parseHIDData(h, data) ==
    /\ h \in 1..Len(handles)
    /\ handles[h].open /\ handles[h].onData
    /\ IF parseHIDDataThrows(data)
       THEN /\ lastOp' = [NoOp EXCEPT !.op = "data", !.threw = TRUE, !.handle = h, !.data = data]
            /\ notified' = << >>
            /\ UNCHANGED <<state, received, published>>
       ELSE /\ Len(published) < MaxPublish
            /\ stateNext(parseHIDDataState(data))
            /\ lastOp' = [NoOp EXCEPT !.op = "data", !.handle = h, !.data = data]
    /\ UNCHANGED <<options, hid, handles, logger, subAt>>

\* _handleHIDError resetting the channel to its initial value
handleHIDErrorChannel_Clears ==
    /\ state' = [state EXCEPT !.value = EmptyState]
    /\ received' = [o \in Observers |->
                      IF \E i \in 1..Len(state.observers) : state.observers[i] = o
                      THEN Append(received[o], EmptyState)
                      ELSE received[o]]
    /\ notified' = [i \in 1..Len(state.observers) |-> <<state.observers[i], EmptyState>>]
    /\ UNCHANGED published

\* what _handleHIDError does to the state channel: nothing
handleHIDErrorChannel == UNCHANGED <<state, received, published>> /\ notified' = << >>

\* _handleHIDError that logs the fault and leaves the handle open
handleHIDError_NoClose(h) ==
    /\ h \in 1..Len(handles)
    /\ handles[h].open /\ handles[h].onError
    /\ Len(logger) < MaxLog
    /\ logger' = Append(logger, [level |-> "ERROR", message |-> "Lost connection"])
    /\ handleHIDErrorChannel
    /\ lastOp' = [NoOp EXCEPT !.op = "error", !.handle = h]
    /\ UNCHANGED <<options, hid, handles, subAt>>

\* _handleHIDError(), the 'error' callback of handle h: close this._hid, log the fault
handleHIDError(h) ==
    /\ h \in 1..Len(handles)
    /\ handles[h].open /\ handles[h].onError
    /\ Len(logger) < MaxLog
    /\ handles' = [handles EXCEPT ![hid].open = FALSE]
    /\ logger' = Append(logger, [level |-> "ERROR", message |-> "Lost connection"])
    /\ handleHIDErrorChannel
    /\ lastOp' = [NoOp EXCEPT !.op = "error", !.handle = h]
    /\ UNCHANGED <<options, hid, subAt>>

\* _findDevice matching on either identifier
findDevice_Either(device) ==
    device.vendorId = options.vendorID \/ device.productId = options.productID

\* _findDevice(device)
findDevice(device) ==
    device.vendorId = options.vendorID /\ device.productId = options.productID

\* the lists devices() returns: a DualShock4 of the second and of the first generation
\* (054c:09cc, 054c:05c4) and a device of another vendor with the default product id
DS4v2 == [vendorId |-> DefaultVendorID, productId |-> DefaultProductID]
DS4v1 == [vendorId |-> DefaultVendorID, productId |-> 1476]
Receiver == [vendorId |-> 1133, productId |-> DefaultProductID]

DeviceLists == { << >>, <<DS4v2>>, <<Receiver, DS4v1>>, <<Receiver, DS4v1, DS4v2>> }

\* connect(): devs is what devices() returns, openOk whether new HID can open the device
connect(devs, openOk) ==
    LET found == \E i \in 1..Len(devs) : findDevice(devs[i])
        info == [level |-> "INFO", message |-> "Connecting"]
        op == [NoOp EXCEPT !.op = "connect", !.enumerated = TRUE, !.devices = devs,
                           !.found = found]
    IN  /\ Len(logger) + 2 <= MaxLog
        /\ IF found
           THEN IF openOk
                THEN /\ Len(handles) < MaxHandles
                     /\ handles' = Append(handles, [open |-> TRUE, onData |-> TRUE, onError |-> TRUE])
                     /\ hid' = Len(handles) + 1
                     /\ logger' = Append(logger, info)
                     /\ lastOp' = [op EXCEPT !.opened = TRUE, !.handle = Len(handles) + 1]
                ELSE /\ logger' = Append(logger, info)
                     /\ lastOp' = [op EXCEPT !.threw = TRUE]
                     /\ UNCHANGED <<hid, handles>>
           ELSE /\ logger' = logger \o <<info, [level |-> "ERROR", message |-> "Failed to connect"]>>
                /\ lastOp' = op
                /\ UNCHANGED <<hid, handles>>
        /\ notified' = << >>
        /\ UNCHANGED <<options, state, received, published, subAt>>

\* ---------------------------------------------------------------- reports

\* a report of len bytes, zero but for the bytes that `bytes` sets (index :> value)
Report(len, bytes) == [i \in 1..len |-> IF (i - 1) \in DOMAIN bytes THEN bytes[i - 1] ELSE 0]

\* the length of the full reports the model delivers (the decoder reads up to data[42])
ReportLength == 44

ReportA == Report(ReportLength, 5 :> 240 @@ 15 :> 100 @@ 35 :> 5)
ReportB == Report(ReportLength, 5 :> 8 @@ 17 :> 206 @@ 18 :> 255 @@ 35 :> 133)
\* a report too short for the motion and orientation reads
ShortReport == Report(10, 5 :> 240)

Reports == {ReportA, ReportB, ShortReport}

\* every value of byte 5, between neighbours that are all zeros or all ones
Byte5Reports(len) ==
    {Report(len, 4 :> n @@ 5 :> b @@ 6 :> n) : b \in Byte, n \in {0, 255}}

\* the touch bytes 35..42: every value of each byte with the other seven all zeros
\* or all ones
TouchByteReports(len) ==
    {Report(len, [i \in 35..42 |-> IF i = p THEN b ELSE n]) :
        p \in 35..42, b \in Byte, n \in {0, 255}}

\* the touch bytes 35..42: every combination of the sample values in the four
\* bytes of one touch, the bytes of the other touch all 0xa5
TouchSamples == {0, 5, 15, 133, 240, 255}

TouchSampleReports(len) ==
    {Report(len, (first :> a @@ (first + 1) :> b @@ (first + 2) :> c @@ (first + 3) :> d)
                 @@ [i \in 35..42 |-> 165]) :
        first \in {35, 39}, a \in TouchSamples, b \in TouchSamples,
        c \in TouchSamples, d \in TouchSamples}

\* the motion bytes 13..18: at one of the offsets 13, 15, 17 every low byte with
\* the sample high bytes and every high byte with the sample low bytes (so 100,
\* -50, -1, 32767 and -32768 among them), the other two offsets holding their
\* share of 0x1234, 100 and -50 (0xffce)
MotionSamples == {0, 1, 100, 127, 128, 206, 255}

MotionReports(len) ==
    {Report(len, (k :> pair[1] @@ (k + 1) :> pair[2])
                 @@ (13 :> 52 @@ 14 :> 18 @@ 15 :> 100 @@ 16 :> 0 @@ 17 :> 206 @@ 18 :> 255)) :
        k \in {13, 15, 17},
        pair \in (Byte \X MotionSamples) \cup (MotionSamples \X Byte)}

\* ----------------------------------------------------------- specification

Next ==
    \/ \E devs \in DeviceLists, openOk \in BOOLEAN : connect(devs, openOk)
    \/ \E h \in 1..MaxHandles, data \in Reports : parseHIDData(h, data)
    \/ \E h \in 1..MaxHandles : handleHIDError(h)
    \/ \E o \in Observers : subscribe(o)
    \/ \E o \in Observers : unsubscribe(o)

Spec == Init /\ [][Next]_vars

\* the decoder on one family of reports: connect() once, then one report
connectOnce ==
    /\ handles = << >> /\ logger = << >>
    /\ \E devs \in DeviceLists : connect(devs, TRUE)

NextByte5 ==
    \/ connectOnce
    \/ published = << >> /\ \E data \in Byte5Reports(ReportLength) : parseHIDData(1, data)

SpecByte5 == Init /\ [][NextByte5]_vars

NextTouch ==
    \/ connectOnce
    \/ published = << >> /\ \E data \in TouchByteReports(ReportLength) : parseHIDData(1, data)
    \/ published = << >> /\ \E data \in TouchSampleReports(ReportLength) : parseHIDData(1, data)

SpecTouch == Init /\ [][NextTouch]_vars

NextMotion ==
    \/ connectOnce
    \/ published = << >> /\ \E data \in MotionReports(ReportLength) : parseHIDData(1, data)

SpecMotion == Init /\ [][NextMotion]_vars

\* ------------------------------------------------------------ properties

IsSubscribed(o) == \E i \in 1..Len(state.observers) : state.observers[i] = o

\* the channel's value once n values were published
ValueAfter(n) == IF n = 0 THEN EmptyState ELSE published[n]

ErrorCount(log) == Len(SelectSeq(log, LAMBDA l : l.level = "ERROR"))

\* no device of the list devices() returned has both configured identifiers
NoneMatches(devs) ==
    \A i \in 1..Len(devs) :
        ~(devs[i].vendorId = options.vendorID /\ devs[i].productId = options.productID)

\* C1: a subscribed observer has received the value that was current when it
\* subscribed (the replay: the last value published before, none older) and then
\* every value published since, in the order of publication. So an observer that
\* subscribed before publish(A), publish(B) has seen A and then B, and one that
\* subscribes after both is handed B alone.
C1_ReplayThenInOrder ==
    \A o \in Observers :
        IsSubscribed(o) =>
            received[o] = <<ValueAfter(subAt[o])>>
                            \o SubSeq(published, subAt[o] + 1, Len(published))

\* C1 witness: A then B published, A # B; o1 subscribed before both, o2 after both
C1_Witness ==
    /\ Len(published) = 2 /\ published[1] # published[2]
    /\ state.observers = <<"o1", "o2">>
    /\ subAt["o1"] = 0 /\ subAt["o2"] = 2
    /\ received["o1"] = <<EmptyState, published[1], published[2]>>
    /\ received["o2"] = <<published[2]>>

\* C2: a call of next(v) calls every observer registered at that moment once with
\* v, in registration order, and no other observer; this holds for every publish,
\* also one that repeats the value before it.
C2_EveryPublishToEveryObserver ==
    [][published' # published =>
        LET v == published'[Len(published')]
        IN  /\ notified' = [i \in 1..Len(state.observers) |-> <<state.observers[i], v>>]
            /\ \A o \in Observers :
                  received'[o] = IF IsSubscribed(o) THEN Append(received[o], v)
                                 ELSE received[o]
            /\ state'.observers = state.observers]_vars

\* C2 witness: the same snapshot published twice in a row to o2 and o1, registered
\* in that order, each handed it both times
C2_Witness ==
    /\ Len(published) = 2 /\ published[1] = published[2]
    /\ state.observers = <<"o2", "o1">>
    /\ notified = << <<"o2", published[2]>>, <<"o1", published[2]>> >>
    /\ received["o1"] = <<EmptyState, published[1], published[2]>>
    /\ received["o2"] = <<EmptyState, published[1], published[2]>>

\* a step of connect() that found no device with both configured identifiers
ConnectNoMatchStep ==
    lastOp'.op = "connect" /\ NoneMatches(lastOp'.devices)

\* C3 as stated: connect() with no matching device leaves the manager Disconnected,
\* logs exactly one error, opens no handle and registers no callback.
C3_NoMatchLeavesDisconnected ==
    [][ConnectNoMatchStep =>
        /\ ~Connected'
        /\ ErrorCount(logger') = ErrorCount(logger) + 1
        /\ handles' = handles]_vars

\* C3 amended: connect() with no matching device leaves the connection as it was
\* (a Disconnected manager stays Disconnected, a handle opened earlier stays the
\* manager's and open), logs exactly one error, opens no handle and registers no
\* callback, and no exception leaves it.
C3_NoMatchLeavesConnectionAsItWas ==
    [][ConnectNoMatchStep =>
        /\ hid' = hid
        /\ handles' = handles
        /\ Connected' = Connected
        /\ ErrorCount(logger') = ErrorCount(logger) + 1
        /\ ~lastOp'.opened /\ ~lastOp'.threw]_vars

\* C3 witness: Disconnected after connect() saw one device with the vendor and
\* another with the product identifier, none with both
C3_Witness ==
    /\ lastOp.op = "connect" /\ NoneMatches(lastOp.devices)
    /\ \E i, j \in 1..Len(lastOp.devices) :
          /\ lastOp.devices[i].vendorId = options.vendorID
          /\ lastOp.devices[j].productId = options.productID
    /\ ~Connected /\ handles = << >>
    /\ logger[Len(logger)] = [level |-> "ERROR", message |-> "Failed to connect"]

\* C4: the error callback on a Connected manager closes the manager's handle, logs
\* one fault and leaves the manager Disconnected; it does not enumerate or open,
\* and only connect() opens a handle or makes the manager Connected again.
C4_ErrorClosesAndStaysDown ==
    [][/\ (lastOp'.op = "error" /\ Connected) =>
            /\ hid' = hid /\ ~handles'[hid].open /\ ~Connected'
            /\ logger' = Append(logger, [level |-> "ERROR", message |-> "Lost connection"])
            /\ Len(handles') = Len(handles)
            /\ ~lastOp'.enumerated /\ ~lastOp'.opened
       /\ (Len(handles') # Len(handles) \/ (~Connected /\ Connected') \/ lastOp'.enumerated)
            => lastOp'.op = "connect"]_vars

\* C4 witness: the manager's own handle raised the error and is now closed
C4_Witness ==
    /\ lastOp.op = "error" /\ lastOp.handle = hid
    /\ ~handles[hid].open /\ ~Connected
    /\ logger[Len(logger)] = [level |-> "ERROR", message |-> "Lost connection"]

\* a step that is a transport fault or a connect() that opened nothing
FaultStep ==
    lastOp'.op = "error" \/ (lastOp'.op = "connect" /\ ~lastOp'.opened)

\* C5: a transport fault, and a connect() that fails, leave the channel's value
\* the last snapshot published and call no observer.
C5_FaultKeepsChannel ==
    [][FaultStep =>
        /\ state' = state
        /\ state'.value = ValueAfter(Len(published'))
        /\ received' = received
        /\ notified' = << >>]_vars

\* C5 witness: a fault after a snapshot was published, with an observer subscribed
C5_Witness ==
    /\ lastOp.op = "error"
    /\ published # << >> /\ state.value = published[Len(published)]
    /\ state.value # EmptyState
    /\ state.observers # << >>

\* C6: no exception leaves connect(), the data callback or the error callback.
C6_NoExceptionEscapes == ~lastOp.threw

\* the last operation was a report that _parseHIDData decoded and published, so
\* state.value is the snapshot of the report lastOp.data
Decoded == lastOp.op = "data" /\ ~lastOp.threw /\ state.value = published[Len(published)]

\* C7: the four D-pad flags are the hat-switch table of the low nibble of byte 5:
\* up for 0, 1, 7; right for 1, 2, 3; down for 3, 4, 5; left for 5, 6, 7; none
\* for 8..15; whatever the high nibble.
C7_DPadFollowsHatSwitch ==
    (Decoded /\ Len(lastOp.data) > 5) =>
        LET nibble == lastOp.data[6] % 16
        IN  /\ state.value.dPadUp = (nibble \in {0, 1, 7})
            /\ state.value.dPadRight = (nibble \in {1, 2, 3})
            /\ state.value.dPadDown = (nibble \in {3, 4, 5})
            /\ state.value.dPadLeft = (nibble \in {5, 6, 7})
            /\ (nibble = 0 => /\ state.value.dPadUp /\ ~state.value.dPadRight
                              /\ ~state.value.dPadDown /\ ~state.value.dPadLeft)
            /\ (nibble >= 8 => /\ ~state.value.dPadUp /\ ~state.value.dPadRight
                               /\ ~state.value.dPadDown /\ ~state.value.dPadLeft)

\* C7 witness: byte 5 = 0xf8, the D-pad released under a high nibble of all ones
C7_Witness ==
    /\ Decoded /\ lastOp.data[6] = 248
    /\ ~state.value.dPadUp /\ ~state.value.dPadRight
    /\ ~state.value.dPadDown /\ ~state.value.dPadLeft

\* C8 as stated: byte 5 = 0b11110000 decodes to cross and circle released, square
\* and triangle pressed.
C8_Byte5F0AsStated ==
    (Decoded /\ Len(lastOp.data) > 5 /\ lastOp.data[6] = 240) =>
        /\ ~state.value.cross /\ ~state.value.circle
        /\ state.value.square /\ state.value.triangle

\* C8 amended: byte 5 = 0b11110000 has the bits 4, 5, 6 and 7 set and decodes to
\* cross, circle, square and triangle all pressed; byte 5 = 0b10010000 is what
\* decodes to cross and circle released, square and triangle pressed.
C8_Byte5F0AllPressed ==
    (Decoded /\ Len(lastOp.data) > 5) =>
        /\ lastOp.data[6] = 240 =>
              /\ state.value.cross /\ state.value.circle
              /\ state.value.square /\ state.value.triangle
        /\ lastOp.data[6] = 144 =>
              /\ ~state.value.cross /\ ~state.value.circle
              /\ state.value.square /\ state.value.triangle

\* C8 witness: byte 5 = 0b11110000 decoded, cross and circle pressed
C8_Witness ==
    /\ Decoded /\ lastOp.data[6] = 240
    /\ state.value.cross /\ state.value.circle
    /\ state.value.square /\ state.value.triangle

\* what the claim says of one touch, t, given its four bytes
TouchAsSpecified(t, b0, b1, b2, b3) ==
    /\ t.active = (b0 < 128)
    /\ t.id = b0 % 128 /\ t.id \in 0..127
    /\ t.coordinates.x = (b2 % 16) * 256 + b1
    /\ t.coordinates.y = b3 * 16 + (b2 \div 16)
    /\ t.coordinates.x \in 0..4095 /\ t.coordinates.y \in 0..4095
    /\ t.coordinates.z = 0
    /\ (b0 = 5 => t.active /\ t.id = 5)
    /\ (b0 = 133 => ~t.active)

\* C9: touch 1 is decoded from the bytes 35..38 and touch 2 from the bytes 39..42:
\* active iff the top bit of the first byte is 0, id its low 7 bits, x the low
\* nibble of the third byte * 256 + the second byte, y the fourth byte * 16 + the
\* high nibble of the third, x and y in 0..4095, z = 0.
C9_TouchesFollowLayout ==
    (Decoded /\ Len(lastOp.data) > 42) =>
        LET d == lastOp.data
            t == state.value.touchPad.touches
        IN  /\ Len(t) = 2
            /\ TouchAsSpecified(t[1], d[36], d[37], d[38], d[39])
            /\ TouchAsSpecified(t[2], d[40], d[41], d[42], d[43])

\* C9 witness: byte 35 = 0x05 with the bytes 36..38 = 0xf0, 0x0f, 0xff: touch 1
\* active with id 5 at x = 0xff0, y = 0xff0; touch 2 (bytes all 0xa5) not active
C9_Witness ==
    /\ Decoded
    /\ lastOp.data[36] = 5 /\ lastOp.data[37] = 240
    /\ lastOp.data[38] = 15 /\ lastOp.data[39] = 255
    /\ state.value.touchPad.touches[1] =
          [active |-> TRUE, coordinates |-> [x |-> 4080, y |-> 4080, z |-> 0], id |-> 5]
    /\ ~state.value.touchPad.touches[2].active

\* the signed 16-bit little-endian value of a low and a high byte
Int16(lo, hi) == IF hi >= 128 THEN lo + 256 * hi - 65536 ELSE lo + 256 * hi

\* C10: motion.x is the signed 16-bit little-endian value at offset 13, motion.y
\* the negation of the one at offset 15 and motion.z the negation of the one at
\* offset 17, also for -32768, whose negation is 32768.
C10_MotionSigns ==
    (Decoded /\ Len(lastOp.data) > 18) =>
        LET d == lastOp.data
        IN  /\ state.value.motion.x = Int16(d[14], d[15])
            /\ state.value.motion.y = 0 - Int16(d[16], d[17])
            /\ state.value.motion.z = 0 - Int16(d[18], d[19])
            /\ (Int16(d[16], d[17]) = 100 => state.value.motion.y = -100)
            /\ (Int16(d[18], d[19]) = -50 => state.value.motion.z = 50)
            /\ (Int16(d[16], d[17]) = -32768 => state.value.motion.y = 32768)

\* C10 witness: -32768 (bytes 0x00, 0x80) at offset 15, with 0x1234 at offset 13
\* and -50 at offset 17
C10_Witness ==
    /\ Decoded
    /\ lastOp.data[16] = 0 /\ lastOp.data[17] = 128
    /\ state.value.motion = [x |-> 4660, y |-> 32768, z |-> 50]

\* C11: the manager holds at most one open HID handle, the one this._hid names:
\* no handle opened by an earlier connect() is left open once this._hid names a
\* later one, and the handle whose error callback just ran is closed.
C11_SingleOwnedHandle ==
    /\ \A h \in 1..Len(handles) : handles[h].open => h = hid
    /\ lastOp.op = "error" => ~handles[lastOp.handle].open

====
